---- MODULE Spec2Model ----
(***************************************************************************)
(* A model of the QnA-Bot server: the conversation window store            *)
(* (ConversationService), the answer handler of the basic server with its  *)
(* in-file conversations Map, the chunking, ingestion and keyword search   *)
(* of the DocumentProcessor, and the knowledge-base server with its        *)
(* repository, upload, DELETE and answer handlers.                         *)
(*                                                                         *)
(* Spec       the ConversationService under any sequence of its calls      *)
(* SpecBasic  the basic server handling overlapping /api/answer requests   *)
(* SpecSearch the DocumentProcessor under uploads and searches             *)
(* SpecChunk  splitIntoChunks on texts around chunkSize                    *)
(* SpecIngest the DocumentProcessor under uploads and removals             *)
(* SpecRetrieve  the knowledge-base server answering while files are      *)
(*            uploaded to a store of more chunks than a search returns     *)
(* SpecWindow the knowledge-base server under overlapping /api/answer      *)
(*            requests of one conversation that outgrows its window        *)
(* SpecKb     the knowledge-base server under uploads and DELETE requests  *)
(* SpecAnswer the knowledge-base server under uploads and overlapping      *)
(*            /api/answer requests                                         *)
(*                                                                         *)
(* A JavaScript Map is a function whose DOMAIN is the set of its keys; an  *)
(* array is a sequence; a string is a sequence of one-character strings.   *)
(***************************************************************************)
EXTENDS Integers, Sequences, FiniteSets, TLC

VARIABLES
    conversations,  \* ConversationService.conversations: Map id -> array of turns
    appended,       \* per id: addMessageToConversation calls since the id last had no window
    lastOp,         \* the last ConversationService call: op, id, ids known before it
    ret,            \* what the last getConversation call returned
    serverConversations, \* basic server: the in-file conversations Map
    requests,       \* basic server: the /api/answer requests being handled, per handler slot
    started,        \* basic server: /api/answer requests received so far
    documents,      \* DocumentProcessor.documents: the chunk store
    uploads,        \* files uploaded so far (multer names each upload's file anew)
    search,         \* the last searchSimilarDocuments call: query, k, path taken, result
    returned,       \* the chunk list the last processFile call returned
    removal,        \* the last removeDocumentsByFileId call, while no upload has followed it
    typed,          \* the text handed to splitIntoChunks, as the pieces it is made of
    split,          \* the splitIntoChunks call on that text: made or not, and its chunks
    inMemoryDocuments,  \* knowledgeBaseRepository: Map _id -> document record
    documentIdCounter,  \* knowledgeBaseRepository: the next _id
    readyState,     \* mongoose.connection.readyState
    issued,         \* the documents addDocument has returned, in order
    deleted,        \* the fileIds of the documents a DELETE request has removed
    lastDelete,     \* the last DELETE request: id, userId, status answered
    kbRequests,     \* knowledge-base server: the /api/answer requests being handled, per slot
    asked,          \* knowledge-base server: /api/answer requests received so far
    response        \* knowledge-base server: the last /api/answer response sent

serviceVars == <<conversations, appended, lastOp, ret>>

basicVars == <<serverConversations, requests, started>>

processorVars == <<documents, uploads, search, returned, removal>>

chunkerVars == <<typed, split>>

kbVars == <<inMemoryDocuments, documentIdCounter, readyState, issued, deleted, lastDelete>>

answerVars == <<kbRequests, asked, response>>

vars == <<conversations, appended, lastOp, ret, serverConversations, requests, started,
          documents, uploads, search, returned, removal, typed, split, inMemoryDocuments, documentIdCounter,
          readyState, issued,
          deleted, lastDelete, kbRequests, asked, response>>

(***************************************************************************)
(* Bounds and program constants                                            *)
(***************************************************************************)
\* messages.slice(-20) in updateConversation
WindowCap == 20

\* appends issued to one conversation id before it is cleared
MaxAppends == 25

\* conversation ids the callers use
CIds == {"a", "b"}

\* /api/answer requests the basic server receives in one run
MaxRequests == 3

\* requests the basic server handles at the same time
Slots == {1, 2}

\* this.chunkSize of the DocumentProcessor
chunkSize == 1000

\* const overlap in splitIntoChunks
overlap == 100

\* chunks the store holds before uploads stop
MaxDocs == 4

\* the largest k a search is called with
MaxK == 4

\* pieces a text handed to splitIntoChunks is made of
MaxPieces == 4

\* files the knowledge-base server is sent before uploads stop
MaxUploads == 2

\* /api/answer requests the knowledge-base server receives
MaxAsked == 2

\* /api/answer requests of the one long conversation
MaxExchanges == 12

\* the completion call can fail while the long conversation has had no more
\* requests than this
MaxFailing == 2

(***************************************************************************)
(* Helpers for arrays and Maps                                             *)
(***************************************************************************)
Min(x, y) == IF x <= y THEN x ELSE y

Max(x, y) == IF x >= y THEN x ELSE y

\* Array.prototype.slice(-n) for n > 0: the last n elements (all, if fewer)
sliceLast(s, n) == SubSeq(s, Max(1, Len(s) - n + 1), Len(s))

\* Array.prototype.slice(0, n) for n >= 0: the first n elements (all, if fewer)
sliceFirst(s, n) == SubSeq(s, 1, Min(n, Len(s)))

\* Map.prototype.has
has(m, id) == id \in DOMAIN m

\* Map.prototype.set
MapSet(m, id, v) == [k \in DOMAIN m \cup {id} |-> IF k = id THEN v ELSE m[k]]

\* Map.prototype.delete
MapDelete(m, id) == [k \in DOMAIN m \ {id} |-> m[k]]

(***************************************************************************)
(* ConversationService                                                     *)
(***************************************************************************)
\* a getConversation that only reads
getConversation_readOnly(m, id) == m

\* the store after getConversation(id): an unknown id gets an empty window
getConversation(m, id) == IF ~has(m, id) THEN MapSet(m, id, <<>>) ELSE m

\* what getConversation(id) returns: the stored array
getConversationResult(m, id) == IF has(m, id) THEN m[id] ELSE <<>>

\* an updateConversation that stores the messages uncut
updateConversation_noSlice(m, id, messages) == MapSet(m, id, messages)

\* an updateConversation that keeps the first 20 messages
updateConversation_keepFirst(m, id, messages) ==
    MapSet(m, id, sliceFirst(messages, WindowCap))

updateConversation(m, id, messages) == MapSet(m, id, sliceLast(messages, WindowCap))

\* getConversation, push onto the stored array, updateConversation
addMessageToConversation(m, id, message) ==
    LET m1 == getConversation(m, id)
        conversation == Append(getConversationResult(m1, id), message)
        m2 == MapSet(m1, id, conversation)
    IN  updateConversation(m2, id, conversation)

\* a clearConversation that empties the whole Map
clearConversation_all(m, id) == [k \in {} |-> <<>>]

\* a clearConversation that leaves an empty window behind
clearConversation_empty(m, id) == IF has(m, id) THEN MapSet(m, id, <<>>) ELSE m

clearConversation(m, id) == MapDelete(m, id)

getAllConversationIds(m) == DOMAIN m

(***************************************************************************)
(* The callers of the service                                              *)
(***************************************************************************)
\* The n-th turn appended under id: the answer handler appends the user's
\* question and then the assistant's answer, so roles alternate; the content
\* is unique to the id and the position.
Turn(id, n) ==
    [role |-> IF n % 2 = 1 THEN "user" ELSE "assistant", content |-> <<id, n>>]

NoOp == [op |-> "none", cid |-> "none", idsBefore |-> {}]

InitService ==
    /\ conversations = [k \in {} |-> <<>>]
    /\ appended = [c \in CIds |-> 0]
    /\ lastOp = NoOp
    /\ ret = <<>>

AppendMessage(c) ==
    /\ appended[c] < MaxAppends
    /\ conversations' = addMessageToConversation(conversations, c, Turn(c, appended[c] + 1))
    /\ appended' = [appended EXCEPT ![c] = @ + 1]
    /\ lastOp' = [op |-> "append", cid |-> c, idsBefore |-> getAllConversationIds(conversations)]
    /\ ret' = <<>>
    /\ UNCHANGED basicVars
    /\ UNCHANGED processorVars
    /\ UNCHANGED chunkerVars
    /\ UNCHANGED kbVars
    /\ UNCHANGED answerVars

GetConversation(c) ==
    /\ conversations' = getConversation(conversations, c)
    /\ ret' = getConversationResult(getConversation(conversations, c), c)
    /\ lastOp' = [op |-> "get", cid |-> c, idsBefore |-> getAllConversationIds(conversations)]
    /\ UNCHANGED appended
    /\ UNCHANGED basicVars
    /\ UNCHANGED processorVars
    /\ UNCHANGED chunkerVars
    /\ UNCHANGED kbVars
    /\ UNCHANGED answerVars

ClearConversation(c) ==
    /\ conversations' = clearConversation(conversations, c)
    /\ appended' = [appended EXCEPT ![c] = 0]
    /\ lastOp' = [op |-> "clear", cid |-> c, idsBefore |-> getAllConversationIds(conversations)]
    /\ ret' = <<>>
    /\ UNCHANGED basicVars
    /\ UNCHANGED processorVars
    /\ UNCHANGED chunkerVars
    /\ UNCHANGED kbVars
    /\ UNCHANGED answerVars

(***************************************************************************)
(* The basic server: POST /api/answer over the in-file conversations Map   *)
(***************************************************************************)
\* req.body.conversationId left out
NoConversationId == "none"

\* req.body.question left out or empty
NoQuestion == <<>>

\* the question of the n-th request: its content is unique to the request
Question(n) == <<"question", n>>

\* the text the completion service returns to the n-th request
Answer(n) == <<"answer", n>>

SystemMessage == [role |-> "system", content |-> <<"You are a helpful assistant.">>]

UserMessage(question) == [role |-> "user", content |-> question]

AssistantMessage(answer) == [role |-> "assistant", content |-> answer]

\* req.body.history: left out, or an array the client sends along
NoHistory == [given |-> FALSE, turns |-> <<>>]

Histories(question) ==
    { NoHistory,
      [given |-> TRUE, turns |-> <<>>],
      [given |-> TRUE, turns |-> <<UserMessage(question)>>],
      [given |-> TRUE, turns |-> <<SystemMessage, UserMessage(question)>>] }

\* messages.filter(msg => msg.role !== 'system')
RECURSIVE withoutSystem(_)
withoutSystem(messages) ==
    IF messages = <<>> THEN <<>>
    ELSE IF Head(messages).role # "system"
         THEN <<Head(messages)>> \o withoutSystem(Tail(messages))
         ELSE withoutSystem(Tail(messages))

IdleRequest ==
    [pc |-> "idle", n |-> 0, question |-> NoQuestion, conversationId |-> NoConversationId,
     history |-> NoHistory, messages |-> <<>>]

\* lines 72-81: the stored window the request reads; an unknown id gets an
\* empty window
basicConversationMessages(m, conversationId) ==
    IF conversationId # NoConversationId /\ has(m, conversationId)
    THEN m[conversationId] ELSE <<>>

basicInitConversation(m, conversationId) ==
    IF conversationId # NoConversationId /\ ~has(m, conversationId)
    THEN MapSet(m, conversationId, <<>>) ELSE m

\* lines 84-99: the message list sent to the completion service
basicMessages(m, question, conversationId, history) ==
    LET conversationMessages == basicConversationMessages(m, conversationId)
        messageHistory == IF history.given THEN history.turns ELSE conversationMessages
        withSystem ==
            IF messageHistory = <<>> \/ messageHistory[1].role # "system"
            THEN <<SystemMessage>> \o messageHistory
            ELSE messageHistory
    IN  IF ~history.given /\ conversationId # NoConversationId
        THEN Append(withSystem, UserMessage(question))
        ELSE withSystem

\* a window update that appends the exchange to the window stored now
basicStoreExchange_reread(m, rq, answer) ==
    MapSet(m, rq.conversationId,
           sliceLast(basicConversationMessages(m, rq.conversationId)
                         \o <<UserMessage(rq.question), AssistantMessage(answer)>>,
                     WindowCap))

\* lines 116-125: the window stored after the completion call has returned
basicStoreExchange(m, rq, answer) ==
    LET updatedMessages == Append(withoutSystem(rq.messages), AssistantMessage(answer))
    IN  MapSet(m, rq.conversationId, sliceLast(updatedMessages, WindowCap))

InitBasic ==
    /\ serverConversations = [k \in {} |-> <<>>]
    /\ requests = [s \in Slots |-> IdleRequest]
    /\ started = 0

\* lines 64-69: a request without a question is answered 400 at once
AnswerReject(s) ==
    /\ requests[s].pc # "awaiting"
    /\ started < MaxRequests
    /\ requests' = [requests EXCEPT ![s] =
           [pc |-> "rejected", n |-> started + 1, question |-> NoQuestion,
            conversationId |-> NoConversationId, history |-> NoHistory, messages |-> <<>>]]
    /\ started' = started + 1
    /\ UNCHANGED serverConversations
    /\ UNCHANGED serviceVars
    /\ UNCHANGED processorVars
    /\ UNCHANGED chunkerVars
    /\ UNCHANGED kbVars
    /\ UNCHANGED answerVars

\* lines 64-110: the handler up to the await of the completion call
AnswerStart(s) ==
    /\ requests[s].pc # "awaiting"
    /\ started < MaxRequests
    /\ \E conversationId \in CIds \cup {NoConversationId} :
       \E history \in Histories(Question(started + 1)) :
         /\ requests' = [requests EXCEPT ![s] =
                [pc |-> "awaiting", n |-> started + 1, question |-> Question(started + 1),
                 conversationId |-> conversationId, history |-> history,
                 messages |-> basicMessages(serverConversations, Question(started + 1),
                                            conversationId, history)]]
         /\ serverConversations' = basicInitConversation(serverConversations, conversationId)
    /\ started' = started + 1
    /\ UNCHANGED serviceVars
    /\ UNCHANGED processorVars
    /\ UNCHANGED chunkerVars
    /\ UNCHANGED kbVars
    /\ UNCHANGED answerVars

\* lines 112-128: the completion call has returned
AnswerComplete(s) ==
    /\ requests[s].pc = "awaiting"
    /\ serverConversations' =
         IF requests[s].conversationId # NoConversationId
         THEN basicStoreExchange(serverConversations, requests[s], Answer(requests[s].n))
         ELSE serverConversations
    /\ requests' = [requests EXCEPT ![s].pc = "done"]
    /\ UNCHANGED started
    /\ UNCHANGED serviceVars
    /\ UNCHANGED processorVars
    /\ UNCHANGED chunkerVars
    /\ UNCHANGED kbVars
    /\ UNCHANGED answerVars

\* lines 129-132: the completion call has thrown
AnswerFail(s) ==
    /\ requests[s].pc = "awaiting"
    /\ requests' = [requests EXCEPT ![s].pc = "failed"]
    /\ UNCHANGED <<serverConversations, started>>
    /\ UNCHANGED serviceVars
    /\ UNCHANGED processorVars
    /\ UNCHANGED chunkerVars
    /\ UNCHANGED kbVars
    /\ UNCHANGED answerVars

NextBasic ==
    \/ \E s \in Slots : AnswerReject(s)
    \/ \E s \in Slots : AnswerStart(s)
    \/ \E s \in Slots : AnswerComplete(s)
    \/ \E s \in Slots : AnswerFail(s)

(***************************************************************************)
(* Strings: sequences of one-character strings                             *)
(***************************************************************************)
LowerCaseLetters ==
    <<"a", "b", "c", "d", "e", "f", "g", "h", "i", "j", "k", "l", "m", "n",
      "o", "p", "q", "r", "s", "t", "u", "v", "w", "x", "y", "z">>

UpperCaseLetters ==
    <<"A", "B", "C", "D", "E", "F", "G", "H", "I", "J", "K", "L", "M", "N",
      "O", "P", "Q", "R", "S", "T", "U", "V", "W", "X", "Y", "Z">>

Digits ==
    <<"0", "1", "2", "3", "4", "5", "6", "7", "8", "9">>

Range(f) == {f[i] : i \in DOMAIN f}

SpaceChars == {" ", "\n", "\t", "\r"}

WordChars ==
    Range(LowerCaseLetters) \cup Range(UpperCaseLetters) \cup Range(Digits) \cup {"_"}

LowerCaseOf ==
    [ch \in Range(UpperCaseLetters) |->
        LowerCaseLetters[CHOOSE i \in 1..26 : UpperCaseLetters[i] = ch]]

\* the regular expression class \s
IsSpace(ch) == ch \in SpaceChars

\* the regular expression class \w
IsWordChar(ch) == ch \in WordChars

toLowerCaseChar(ch) == IF ch \in DOMAIN LowerCaseOf THEN LowerCaseOf[ch] ELSE ch

\* String.prototype.toLowerCase
toLowerCase(str) == [i \in 1..Len(str) |-> toLowerCaseChar(str[i])]

\* String.prototype.trim().length === 0
isBlank(str) == \A i \in 1..Len(str) : IsSpace(str[i])

\* Number.prototype.toString, as a template literal prints a size
RECURSIVE numberToString(_)
numberToString(n) ==
    IF n < 10 THEN <<Digits[n + 1]>>
    ELSE numberToString(n \div 10) \o <<Digits[(n % 10) + 1]>>

\* the index after the whitespace run that starts at i
skipSpace(str, i) ==
    IF i > Len(str) THEN i
    ELSE CHOOSE j \in i..(Len(str) + 1) :
             /\ j = Len(str) + 1 \/ ~IsSpace(str[j])
             /\ \A m \in i..(j - 1) : IsSpace(str[m])

\* the index of the first whitespace character from i on, Len(str) + 1 if none
nextSpace(str, i) ==
    CHOOSE j \in i..(Len(str) + 1) :
        /\ j = Len(str) + 1 \/ IsSpace(str[j])
        /\ \A m \in i..(j - 1) : ~IsSpace(str[m])

\* str.split(/\s+/), from index i on
RECURSIVE splitWhitespaceFrom(_, _)
splitWhitespaceFrom(str, i) ==
    LET s == nextSpace(str, i)
    IN  IF s > Len(str) THEN <<SubSeq(str, i, Len(str))>>
        ELSE <<SubSeq(str, i, s - 1)>> \o splitWhitespaceFrom(str, skipSpace(str, s))

\* String.prototype.split(/\s+/)
splitWhitespace(str) == splitWhitespaceFrom(str, 1)

\* where a match of /\n\s*\n/ that starts at i ends (\s* is greedy: at the
\* last newline of the whitespace run), or 0 if none starts at i
paragraphBreakEnd(str, i) ==
    IF str[i] # "\n" THEN 0
    ELSE LET ends == {e \in (i + 1)..(skipSpace(str, i + 1) - 1) : str[e] = "\n"}
         IN  IF ends = {} THEN 0 ELSE CHOOSE e \in ends : \A f \in ends : f <= e

\* the index where the first match of /\n\s*\n/ from i on starts,
\* Len(str) + 1 if none
nextParagraphBreak(str, i) ==
    CHOOSE j \in i..(Len(str) + 1) :
        /\ j = Len(str) + 1 \/ paragraphBreakEnd(str, j) > 0
        /\ \A m \in i..(j - 1) : paragraphBreakEnd(str, m) = 0

\* str.split(/\n\s*\n/), from index i on
RECURSIVE splitParagraphsFrom(_, _)
splitParagraphsFrom(str, i) ==
    LET b == nextParagraphBreak(str, i)
    IN  IF b > Len(str) THEN <<SubSeq(str, i, Len(str))>>
        ELSE <<SubSeq(str, i, b - 1)>>
                 \o splitParagraphsFrom(str, paragraphBreakEnd(str, b) + 1)

splitParagraphs_words(str) == splitWhitespace(str)

\* String.prototype.split(/\n\s*\n/)
splitParagraphs(str) == splitParagraphsFrom(str, 1)

\* str has the non-empty string sub at index i
occursAt(str, sub, i) ==
    /\ i + Len(sub) - 1 <= Len(str)
    /\ SubSeq(str, i, i + Len(sub) - 1) = sub

\* String.prototype.includes
includes(str, sub) == sub = <<>> \/ \E i \in 1..Len(str) : occursAt(str, sub, i)

\* path.extname of a file name without directories, toLowerCase, substring(1)
fileExtensionOf(originalname) ==
    LET dots == {i \in 2..Len(originalname) : originalname[i] = "."}
    IN  IF dots = {} THEN <<>>
        ELSE LET last == CHOOSE i \in dots : \A j \in dots : j <= i
             IN  toLowerCase(SubSeq(originalname, last + 1, Len(originalname)))

(***************************************************************************)
(* DocumentProcessor: ingestion                                            *)
(***************************************************************************)
EmptyDocument ==
    <<"[", "E", "m", "p", "t", "y", " ", "d", "o", "c", "u", "m", "e", "n",
      "t", "]">>

PdfFailed ==
    <<"P", "D", "F", " ", "c", "o", "n", "t", "e", "n", "t", " ", "e", "x",
      "t", "r", "a", "c", "t", "i", "o", "n", " ", "f", "a", "i", "l", "e",
      "d", ".", " ", "U", "s", "i", "n", "g", " ", "f", "i", "l", "e", " ",
      "n", "a", "m", "e", " ", "a", "s", " ", "c", "o", "n", "t", "e", "x",
      "t", ".">>

StrDocument ==
    <<"D", "o", "c", "u", "m", "e", "n", "t", ":", " ">>

StrType ==
    <<"\n", "T", "y", "p", "e", ":", " ">>

StrSize ==
    <<"\n", "S", "i", "z", "e", ":", " ">>

StrBytes ==
    <<" ", "b", "y", "t", "e", "s">>

StrErrorProcessing ==
    <<"E", "r", "r", "o", "r", " ", "p", "r", "o", "c", "e", "s", "s", "i",
      "n", "g", " ">>

StrPdf ==
    <<"p", "d", "f">>

StrDocx ==
    <<"d", "o", "c", "x">>

\* lines 141-147: the words of a paragraph longer than chunkSize
RECURSIVE splitWords(_, _, _)
splitWords(words, chunks, wordChunk) ==
    IF words = <<>> THEN [chunks |-> chunks, wordChunk |-> wordChunk]
    ELSE LET word == Head(words)
             full == Len(wordChunk) + Len(word) + 1 > chunkSize
             kept == IF full THEN <<>> ELSE wordChunk
         IN  splitWords(Tail(words),
                        IF full THEN Append(chunks, wordChunk) ELSE chunks,
                        kept \o (IF kept # <<>> THEN <<" ">> ELSE <<>>) \o word)

\* lines 124-160: the loop over the paragraphs
RECURSIVE splitLoop(_, _, _)
splitLoop(paragraphs, chunks, currentChunk) ==
    IF paragraphs = <<>>
    THEN IF Len(currentChunk) > 0 THEN Append(chunks, currentChunk) ELSE chunks
    ELSE LET paragraph == Head(paragraphs)
             saved == IF Len(currentChunk) > 0 THEN Append(chunks, currentChunk) ELSE chunks
             carried == IF Len(currentChunk) > overlap
                        THEN sliceLast(currentChunk, overlap) ELSE currentChunk
             words == splitWords(splitWhitespace(paragraph), saved, carried)
         IN  IF Len(currentChunk) + Len(paragraph) > chunkSize
             THEN IF Len(paragraph) > chunkSize
                  THEN splitLoop(Tail(paragraphs), words.chunks, words.wordChunk)
                  ELSE splitLoop(Tail(paragraphs), saved,
                                 carried \o (IF carried # <<>> THEN <<"\n", "\n">> ELSE <<>>)
                                         \o paragraph)
             ELSE splitLoop(Tail(paragraphs), chunks,
                            currentChunk
                                \o (IF currentChunk # <<>> THEN <<"\n", "\n">> ELSE <<>>)
                                \o paragraph)

splitIntoChunks(text) ==
    IF Len(text) = 0 THEN <<EmptyDocument>>
    ELSE LET chunks == splitLoop(splitParagraphs(text), <<>>, <<>>)
         IN  IF Len(chunks) > 0 THEN chunks ELSE <<EmptyDocument>>

\* metadata.filename and metadata.fileId of a chunk that has none
NoFilename == <<>>

NoFileId == 0

\* lines 14-59: the content processFile chunks. file.content is what
\* readFileSync returned ('' when it threw), file.extracted what mammoth
\* extracted from a docx ('' when it extracted nothing or threw)
contentOf(file) ==
    LET fileExtension == fileExtensionOf(file.originalname)
        parsed ==
            IF fileExtension = StrPdf
            THEN IF file.content = <<>> THEN PdfFailed ELSE file.content
            ELSE IF fileExtension = StrDocx /\ file.extracted # <<>>
                 THEN file.extracted
                 ELSE file.content
    IN  IF parsed = <<>> \/ isBlank(parsed)
        THEN StrDocument \o file.originalname \o StrType \o fileExtension
                 \o StrSize \o numberToString(file.size) \o StrBytes
        ELSE parsed

\* lines 64-84: the chunk objects of one file; fileId is path.basename(file.path)
documentsOf(file, fileId) ==
    LET chunks == splitIntoChunks(contentOf(file))
    IN  [i \in 1..Len(chunks) |->
            [pageContent |-> chunks[i],
             metadata |-> [source |-> file.originalname, chunk |-> i,
                           filename |-> file.originalname,
                           fileType |-> fileExtensionOf(file.originalname),
                           chunkCount |-> Len(chunks), fileId |-> fileId,
                           error |-> FALSE]]]

\* lines 96-108: the one chunk stored when processFile has thrown
errorDoc(file, message) ==
    [pageContent |-> StrErrorProcessing \o file.originalname \o <<":", " ">> \o message,
     metadata |-> [source |-> file.originalname, chunk |-> 1, filename |-> NoFilename,
                   fileType |-> <<>>, chunkCount |-> 0, fileId |-> NoFileId,
                   error |-> TRUE]]

\* lines 80-84: every chunk object of the file is pushed onto the store
pushAll_replace(docs, chunks) == chunks

pushAll(docs, chunks) == docs \o chunks

\* the store keeps the chunks the filter lets through, in their order
removeDocumentsByFileId_first(docs, fileId) ==
    LET first == {i \in 1..Len(docs) :
                     /\ docs[i].metadata.fileId = fileId
                     /\ \A j \in 1..(i - 1) : docs[j].metadata.fileId # fileId}
        kept == SelectSeq([i \in 1..Len(docs) |-> [doc |-> docs[i], at |-> i]],
                          LAMBDA item : item.at \notin first)
    IN  [documents |-> [i \in 1..Len(kept) |-> kept[i].doc],
         removed |-> Cardinality(first)]

removeDocumentsByFileId_unidentified(docs, fileId) ==
    LET kept == SelectSeq(docs, LAMBDA doc : /\ doc.metadata.fileId # fileId
                                             /\ doc.metadata.fileId # NoFileId)
    IN  [documents |-> kept, removed |-> Len(docs) - Len(kept)]

\* lines 257-265: removeDocumentsByFileId(fileId): the store it leaves and the
\* number it returns. Every chunk has metadata; a chunk without fileId has
\* NoFileId, which differs from the fileId of every upload
removeDocumentsByFileId(docs, fileId) ==
    LET kept == SelectSeq(docs, LAMBDA doc : doc.metadata.fileId # fileId)
    IN  [documents |-> kept, removed |-> Len(docs) - Len(kept)]

\* lines 251-254
clearDocuments(docs) == <<>>

getDocumentCount(docs) == Len(docs)

(***************************************************************************)
(* DocumentProcessor: keyword search                                       *)
(***************************************************************************)
\* a query is what the caller passes: a string, or a value that is no string
StringQuery(chars) == [isString |-> TRUE, chars |-> chars]

NotAString == [isString |-> FALSE, chars |-> <<>>]

\* a keyword filter that also keeps words of two characters
isKeyword_twoChars(word) == Len(word) > 1

\* line 183: word.length > 2
isKeyword(word) == Len(word) > 2

\* line 184: word.replace(/[^\w]/g, '')
stripNonWord(word) == SelectSeq(word, IsWordChar)

\* lines 182-184: the keywords of a query string
keywordsOf(chars) ==
    LET words == SelectSeq(splitWhitespace(toLowerCase(chars)), isKeyword)
    IN  [i \in 1..Len(words) |-> stripNonWord(words[i])]

\* position p (0..Len) of text is a word boundary, \b
isBoundary(text, p) ==
    (p >= 1 /\ IsWordChar(text[p])) # (p < Len(text) /\ IsWordChar(text[p + 1]))

\* text.match(new RegExp(`\\b${keyword}\\b`, 'g')): the number of matches.
\* A keyword holds word characters only, so two whole-word matches never
\* overlap; the empty keyword matches at every word boundary.
exactMatches(text, keyword) ==
    IF keyword = <<>>
    THEN Cardinality({p \in 0..Len(text) : isBoundary(text, p)})
    ELSE Cardinality({i \in 1..Len(text) :
            /\ occursAt(text, keyword, i)
            /\ isBoundary(text, i - 1)
            /\ isBoundary(text, i + Len(keyword) - 1)})

\* matches of the non-empty keyword from index i on: leftmost first, the
\* next one sought after the end of the last
RECURSIVE partialMatchesFrom(_, _, _)
partialMatchesFrom(text, keyword, i) ==
    IF i + Len(keyword) - 1 > Len(text) THEN 0
    ELSE IF occursAt(text, keyword, i)
         THEN 1 + partialMatchesFrom(text, keyword, i + Len(keyword))
         ELSE partialMatchesFrom(text, keyword, i + 1)

\* text.match(new RegExp(keyword, 'g')): the number of matches; the empty
\* keyword matches at every index, the end included
partialMatches(text, keyword) ==
    IF keyword = <<>> THEN Len(text) + 1 ELSE partialMatchesFrom(text, keyword, 1)

\* lines 199-213: the points of the keywords in the text
RECURSIVE textScore(_, _)
textScore(text, keywords) ==
    IF keywords = <<>> THEN 0
    ELSE 10 * exactMatches(text, Head(keywords))
         + 2 * partialMatches(text, Head(keywords))
         + textScore(text, Tail(keywords))

\* lines 216-223: the bonus for keywords in the file name
RECURSIVE titleScore(_, _)
titleScore(filename, keywords) ==
    IF keywords = <<>> THEN 0
    ELSE (IF includes(filename, Head(keywords)) THEN 50 ELSE 0)
         + titleScore(filename, Tail(keywords))

\* lines 194-226: the score of one chunk
scoreOf(doc, keywords) ==
    textScore(toLowerCase(doc.pageContent), keywords)
    + (IF doc.metadata.filename # NoFilename
       THEN titleScore(toLowerCase(doc.metadata.filename), keywords)
       ELSE 0)

\* item put into a list sorted by score, descending, behind its equals
RECURSIVE insertByScore(_, _)
insertByScore(sorted, item) ==
    IF sorted = <<>> THEN <<item>>
    ELSE IF Head(sorted).score >= item.score
         THEN <<Head(sorted)>> \o insertByScore(Tail(sorted), item)
         ELSE <<item>> \o sorted

\* line 230: Array.prototype.sort((a, b) => b.score - a.score), a stable sort
RECURSIVE sortByScore(_)
sortByScore(items) ==
    IF items = <<>> THEN <<>>
    ELSE insertByScore(sortByScore(SubSeq(items, 1, Len(items) - 1)), items[Len(items)])

\* line 190: the first k chunks, returned for a query without keywords
noKeywordDocuments(docs, k) == sliceFirst(docs, k)

\* a fallback that hands out every chunk
sampleDocuments_all(docs) == docs

\* a fallback that hands out two chunks
sampleDocuments_two(docs) == sliceFirst(docs, Min(2, Len(docs)))

\* line 240: the chunks returned when no result has a score
sampleDocuments(docs) == sliceFirst(docs, Min(3, Len(docs)))

\* a catch that returns no chunk
errorDocuments_none(docs) == <<>>

\* line 246: the chunks returned when the search has thrown
errorDocuments(docs) == sliceFirst(docs, Min(2, Len(docs)))

\* lines 229-233: sort by score, take k, drop the zero scores
scoredResults(docs, keywords, k) ==
    LET scoredDocs == [i \in 1..Len(docs) |-> [doc |-> docs[i], score |-> scoreOf(docs[i], keywords)]]
        positive == SelectSeq(sliceFirst(sortByScore(scoredDocs), k), LAMBDA item : item.score > 0)
    IN  [i \in 1..Len(positive) |-> positive[i].doc]

\* lines 171-248: the path taken and the chunks returned. A query that is no
\* string makes query.toLowerCase() throw inside the try block.
searchSimilarDocuments(docs, query, k) ==
    IF Len(docs) = 0 THEN [path |-> "empty", result |-> <<>>]
    ELSE IF ~query.isString THEN [path |-> "error", result |-> errorDocuments(docs)]
    ELSE LET keywords == keywordsOf(query.chars)
             results == scoredResults(docs, keywords, k)
         IN  IF Len(keywords) = 0
             THEN [path |-> "nokeywords", result |-> noKeywordDocuments(docs, k)]
             ELSE IF Len(results) = 0
                  THEN [path |-> "fallback", result |-> sampleDocuments(docs)]
                  ELSE [path |-> "scored", result |-> results]

(***************************************************************************)
(* Uploads and searches                                                    *)
(***************************************************************************)
\* the files uploaded: each has less text than one chunk holds
CatFile ==
    [originalname |-> <<"c", "a", "t", ".", "t", "x", "t">>,
     content |-> <<"c", "a", "t", " ", "c", "a", "t", "s">>,
     extracted |-> <<>>, size |-> 8]

DogFile ==
    [originalname |-> <<"n", ".", "m", "d">>,
     content |-> <<"D", "o", "g", ",", " ", "d", "o", "g", "!">>,
     extracted |-> <<>>, size |-> 9]

SearchFiles == {CatFile, DogFile}

\* what an exception inside processFile says
ErrorMessage == <<"f", "a", "i", "l">>

\* the queries searched for: with keywords that match, with keywords that match
\* nothing, with words too short to be keywords, with a keyword that is
\* empty once its punctuation is gone, and a value that is no string
Queries ==
    { StringQuery(<<"c", "a", "t">>),
      StringQuery(<<"C", "a", "t", "?", " ", "D", "O", "G">>),
      StringQuery(<<"z", "z", "z">>),
      StringQuery(<<" ", "a", "t", " ", "a", " ">>),
      StringQuery(<<"?", "?", "?">>),
      StringQuery(<<"d", "o", "g">>),
      StringQuery(<<>>),
      NotAString }

NoSearch == [query |-> StringQuery(<<>>), k |-> 0, path |-> "none", result |-> <<>>]

\* earlier is what the call before returned when it named the same fileId
NoRemoval == [fileId |-> NoFileId, removed |-> 0, earlier |-> -1]

InitProcessor ==
    /\ documents = <<>>
    /\ uploads = 0
    /\ search = NoSearch
    /\ returned = <<>>
    /\ removal = NoRemoval

\* processFile: the chunks of the file are pushed onto the store
ProcessFile(file) ==
    /\ uploads < MaxDocs
    /\ Len(documents) < MaxDocs
    /\ LET chunks == documentsOf(file, uploads + 1)
       IN  /\ Len(documents) + Len(chunks) <= MaxDocs
           /\ documents' = pushAll(documents, chunks)
           /\ returned' = chunks
    /\ uploads' = uploads + 1
    /\ search' = NoSearch
    /\ removal' = NoRemoval
    /\ UNCHANGED serviceVars
    /\ UNCHANGED basicVars
    /\ UNCHANGED chunkerVars
    /\ UNCHANGED kbVars
    /\ UNCHANGED answerVars

\* processFile when an exception is thrown before the chunks are pushed
ProcessFileThrows(file) ==
    /\ Len(documents) < MaxDocs
    /\ uploads < MaxDocs
    /\ documents' = Append(documents, errorDoc(file, ErrorMessage))
    /\ returned' = <<errorDoc(file, ErrorMessage)>>
    /\ uploads' = uploads + 1
    /\ search' = NoSearch
    /\ removal' = NoRemoval
    /\ UNCHANGED serviceVars
    /\ UNCHANGED basicVars
    /\ UNCHANGED chunkerVars
    /\ UNCHANGED kbVars
    /\ UNCHANGED answerVars

\* searchSimilarDocuments(query, k); search holds the call until its caller
\* has used the result
SearchSimilarDocuments(query, k) ==
    /\ search = NoSearch
    /\ LET found == searchSimilarDocuments(documents, query, k)
       IN  search' = [query |-> query, k |-> k, path |-> found.path, result |-> found.result]
    /\ UNCHANGED <<documents, uploads, returned, removal>>
    /\ UNCHANGED serviceVars
    /\ UNCHANGED basicVars
    /\ UNCHANGED chunkerVars
    /\ UNCHANGED kbVars
    /\ UNCHANGED answerVars

\* the caller has used the result of the search
SearchReturned ==
    /\ search # NoSearch
    /\ search' = NoSearch
    /\ UNCHANGED <<documents, uploads, returned, removal>>
    /\ UNCHANGED serviceVars
    /\ UNCHANGED basicVars
    /\ UNCHANGED chunkerVars
    /\ UNCHANGED kbVars
    /\ UNCHANGED answerVars

NextSearch ==
    \/ \E file \in SearchFiles : ProcessFile(file)
    \/ ProcessFileThrows(DogFile)
    \/ \E query \in Queries : \E k \in 0..MaxK : SearchSimilarDocuments(query, k)
    \/ SearchReturned
(***************************************************************************)
(* DocumentProcessor: splitIntoChunks on texts around chunkSize            *)
(***************************************************************************)
\* one word of chunkSize - 5 characters
LongWord == [i \in 1..(chunkSize - 5) |-> "x"]

\* what a text is made of: a long word, a short word, a space, a blank-line
\* paragraph separator, a single newline
Pieces ==
    [long |-> LongWord, word |-> <<"a", "a", "a">>, space |-> <<" ">>,
     break |-> <<"\n", "\n">>, newline |-> <<"\n">>]

RECURSIVE textOf(_)
textOf(names) ==
    IF names = <<>> THEN <<>> ELSE Pieces[Head(names)] \o textOf(Tail(names))

NotSplit == [done |-> FALSE, chunks |-> <<>>]

InitChunker ==
    /\ typed = <<>>
    /\ split = NotSplit

\* the text grows by one piece
TypePiece(name) ==
    /\ ~split.done
    /\ Len(typed) < MaxPieces
    /\ typed' = Append(typed, name)
    /\ UNCHANGED split
    /\ UNCHANGED serviceVars
    /\ UNCHANGED basicVars
    /\ UNCHANGED processorVars
    /\ UNCHANGED kbVars
    /\ UNCHANGED answerVars

\* splitIntoChunks(text)
SplitIntoChunks ==
    /\ ~split.done
    /\ split' = [done |-> TRUE, chunks |-> splitIntoChunks(textOf(typed))]
    /\ UNCHANGED typed
    /\ UNCHANGED serviceVars
    /\ UNCHANGED basicVars
    /\ UNCHANGED processorVars
    /\ UNCHANGED kbVars
    /\ UNCHANGED answerVars

NextChunk ==
    \/ \E name \in DOMAIN Pieces : TypePiece(name)
    \/ SplitIntoChunks

(***************************************************************************)
(* DocumentProcessor: ingestion and removal                                *)
(***************************************************************************)
\* a file readFileSync reads nothing from
EmptyFile ==
    [originalname |-> <<"e", ".", "t", "x", "t">>, content |-> <<>>,
     extracted |-> <<>>, size |-> 0]

\* a pdf whose content cannot be read
ScanPdf ==
    [originalname |-> <<"s", ".", "p", "d", "f">>, content |-> <<>>,
     extracted |-> <<>>, size |-> 7]

\* a file of two paragraphs that do not fit into one chunk
LongFile ==
    [originalname |-> <<"l", ".", "t", "x", "t">>,
     content |-> LongWord \o <<"\n", "\n">> \o LongWord,
     extracted |-> <<>>, size |-> 2 * Len(LongWord) + 2]

IngestFiles == {CatFile, EmptyFile, ScanPdf, LongFile}

\* the fileIds a removal names: those of the uploads so far and one more
FileIds == 1..(MaxDocs + 1)

\* removeDocumentsByFileId(fileId)
RemoveDocumentsByFileId(fileId) ==
    /\ LET result == removeDocumentsByFileId(documents, fileId)
       IN  /\ documents' = result.documents
           /\ removal' = [fileId |-> fileId, removed |-> result.removed,
                          earlier |-> IF removal.fileId = fileId
                                      THEN removal.removed ELSE -1]
    /\ UNCHANGED <<uploads, search, returned>>
    /\ UNCHANGED serviceVars
    /\ UNCHANGED basicVars
    /\ UNCHANGED chunkerVars
    /\ UNCHANGED kbVars
    /\ UNCHANGED answerVars

\* clearDocuments()
ClearDocuments ==
    /\ documents' = clearDocuments(documents)
    /\ removal' = NoRemoval
    /\ UNCHANGED <<uploads, search, returned>>
    /\ UNCHANGED serviceVars
    /\ UNCHANGED basicVars
    /\ UNCHANGED chunkerVars
    /\ UNCHANGED kbVars
    /\ UNCHANGED answerVars

NextIngest ==
    \/ \E file \in IngestFiles : ProcessFile(file)
    \/ ProcessFileThrows(DogFile)
    \/ \E fileId \in FileIds : RemoveDocumentsByFileId(fileId)
    \/ ClearDocuments

(***************************************************************************)
(* The knowledge-base server: the repository, upload and DELETE            *)
(***************************************************************************)
\* req.body.userId || 'default-user'
DefaultUser == "default-user"

Users == {DefaultUser, "other-user"}

\* lines 104-112: the metadata of an uploaded file; filePath stands for
\* req.file.path, the path whose basename processFile uses as fileId
\* (description, vectorIds and uploadDate are left out)
documentDataOf(file, fileId, userId) ==
    [title |-> file.originalname, filePath |-> fileId,
     fileType |-> fileExtensionOf(file.originalname), fileSize |-> file.size,
     userId |-> userId]

\* mongoose.connection.readyState
Disconnected == 0

Connected == 1

Connecting == 2

\* lines 10-59: the mongoose model of the repository. The module is loaded by
\* the import at line 10 of the server, before the server calls
\* mongoose.connect (line 20), so readyState is 0 at line 13 and the model is
\* never created
KnowledgeBase == FALSE

\* KnowledgeBase && mongoose.connection.readyState === 1
usesMongo(state) == KnowledgeBase /\ state = Connected

\* lines 70-75, 83-88: the record made of the metadata and the next _id
inMemoryDocument(counter, documentData) ==
    [id |-> numberToString(counter), title |-> documentData.title,
     filePath |-> documentData.filePath, fileType |-> documentData.fileType,
     fileSize |-> documentData.fileSize, userId |-> documentData.userId]

addDocument_reusedId(m, counter, documentData) ==
    MapSet(m, numberToString(Cardinality(DOMAIN m) + 1),
           inMemoryDocument(Cardinality(DOMAIN m) + 1, documentData))

\* addDocument without MongoDB: the record stored under the next _id
addDocument(m, counter, documentData) ==
    MapSet(m, numberToString(counter), inMemoryDocument(counter, documentData))

\* what inMemoryDocuments.get(id) returns for an id that is no key
Undefined == [id |-> <<>>]

\* getDocumentById without MongoDB
getDocumentById(m, id) == IF has(m, id) THEN m[id] ELSE Undefined

\* removeDocument throws 'Document not found or unauthorized'
removeDocumentThrows(m, id, userId) ==
    IF has(m, id) THEN m[id].userId # userId ELSE TRUE

\* removeDocument without MongoDB
removeDocument(m, id) == MapDelete(m, id)

\* the ids a DELETE request names: those handed out so far and the next one
DocumentIds == {numberToString(i) : i \in 1..(MaxUploads + 1)}

NoDelete == [id |-> <<>>, userId |-> DefaultUser, status |-> 0]

InitKb ==
    /\ inMemoryDocuments = [k \in {} |-> <<>>]
    /\ documentIdCounter = 1
    /\ readyState = Connecting
    /\ issued = <<>>
    /\ deleted = {}
    /\ lastDelete = NoDelete

\* POST /api/knowledge-base/upload: processFile, then addDocument
KbUpload(file, userId) ==
    /\ ~usesMongo(readyState)
    /\ LET chunks == documentsOf(file, uploads + 1)
       IN  /\ documents' = pushAll(documents, chunks)
           /\ returned' = chunks
    /\ uploads' = uploads + 1
    /\ inMemoryDocuments' =
         addDocument(inMemoryDocuments, documentIdCounter,
                     documentDataOf(file, uploads + 1, userId))
    /\ issued' = Append(issued, inMemoryDocument(documentIdCounter,
                                                 documentDataOf(file, uploads + 1, userId)))
    /\ documentIdCounter' = documentIdCounter + 1
    /\ UNCHANGED <<search, removal, readyState, deleted, lastDelete>>
    /\ UNCHANGED serviceVars
    /\ UNCHANGED basicVars
    /\ UNCHANGED chunkerVars
    /\ UNCHANGED answerVars

\* POST /api/knowledge-base/upload when processFile has caught an exception:
\* the error chunk is stored, and the document is recorded all the same
KbUploadThrows(file, userId) ==
    /\ ~usesMongo(readyState)
    /\ documents' = Append(documents, errorDoc(file, ErrorMessage))
    /\ returned' = <<errorDoc(file, ErrorMessage)>>
    /\ uploads' = uploads + 1
    /\ inMemoryDocuments' =
         addDocument(inMemoryDocuments, documentIdCounter,
                     documentDataOf(file, uploads + 1, userId))
    /\ issued' = Append(issued, inMemoryDocument(documentIdCounter,
                                                 documentDataOf(file, uploads + 1, userId)))
    /\ documentIdCounter' = documentIdCounter + 1
    /\ UNCHANGED <<search, removal, readyState, deleted, lastDelete>>
    /\ UNCHANGED serviceVars
    /\ UNCHANGED basicVars
    /\ UNCHANGED chunkerVars
    /\ UNCHANGED answerVars

\* DELETE /api/knowledge-base/:id answered with success: the record leaves
\* the repository (and its file the disk); the chunk store is not touched
KbDelete(id, userId) ==
    /\ ~usesMongo(readyState)
    /\ ~removeDocumentThrows(inMemoryDocuments, id, userId)
    /\ inMemoryDocuments' = removeDocument(inMemoryDocuments, id)
    /\ deleted' = deleted \cup {inMemoryDocuments[id].filePath}
    /\ lastDelete' = [id |-> id, userId |-> userId, status |-> 200]
    /\ UNCHANGED <<documentIdCounter, readyState, issued>>
    /\ UNCHANGED processorVars
    /\ UNCHANGED serviceVars
    /\ UNCHANGED basicVars
    /\ UNCHANGED chunkerVars
    /\ UNCHANGED answerVars

\* DELETE /api/knowledge-base/:id answered 500: removeDocument has thrown
KbDeleteFails(id, userId) ==
    /\ ~usesMongo(readyState)
    /\ removeDocumentThrows(inMemoryDocuments, id, userId)
    /\ lastDelete' = [id |-> id, userId |-> userId, status |-> 500]
    /\ UNCHANGED <<inMemoryDocuments, documentIdCounter, readyState, issued, deleted>>
    /\ UNCHANGED processorVars
    /\ UNCHANGED serviceVars
    /\ UNCHANGED basicVars
    /\ UNCHANGED chunkerVars
    /\ UNCHANGED answerVars

\* the connection attempt of mongoose.connect ends, or the connection is lost
MongooseConnection(state) ==
    /\ \/ readyState = Connecting
       \/ readyState = Connected /\ state = Disconnected
    /\ readyState' = state
    /\ UNCHANGED <<inMemoryDocuments, documentIdCounter, issued, deleted, lastDelete>>
    /\ UNCHANGED processorVars
    /\ UNCHANGED serviceVars
    /\ UNCHANGED basicVars
    /\ UNCHANGED chunkerVars
    /\ UNCHANGED answerVars

NextKb ==
    \/ \E state \in {Disconnected, Connected} : MongooseConnection(state)
    \/ uploads < MaxUploads /\ \E file \in SearchFiles : \E userId \in Users : KbUpload(file, userId)
    \/ uploads < MaxUploads /\ \E userId \in Users : KbUploadThrows(DogFile, userId)
    \/ \E id \in DocumentIds : \E userId \in Users : KbDelete(id, userId)
    \/ \E id \in DocumentIds : \E userId \in Users : KbDeleteFails(id, userId)

(***************************************************************************)
(* The knowledge-base server: POST /api/answer                             *)
(***************************************************************************)
\* line 241: the system prompt without knowledge-base context
StrGenericPrompt ==
    <<"Y", "o", "u", " ", "a", "r", "e", " ", "a", " ", "h", "e", "l", "p",
      "f", "u", "l", " ", "a", "s", "s", "i", "s", "t", "a", "n", "t", ".",
      " ", "M", "a", "i", "n", "t", "a", "i", "n", " ", "c", "o", "n", "v",
      "e", "r", "s", "a", "t", "i", "o", "n", " ", "c", "o", "n", "t", "e",
      "x", "t", " ", "a", "n", "d", " ", "p", "r", "o", "v", "i", "d", "e",
      " ", "r", "e", "l", "e", "v", "a", "n", "t", ",", " ", "c", "o", "n",
      "c", "i", "s", "e", " ", "a", "n", "s", "w", "e", "r", "s", ".">>

\* line 236: the system prompt up to the knowledge-base context
StrPromptHead ==
    <<"Y", "o", "u", " ", "a", "r", "e", " ", "a", " ", "h", "e", "l", "p",
      "f", "u", "l", " ", "a", "s", "s", "i", "s", "t", "a", "n", "t", ".",
      " ", "U", "s", "e", " ", "t", "h", "e", " ", "f", "o", "l", "l", "o",
      "w", "i", "n", "g", " ", "i", "n", "f", "o", "r", "m", "a", "t", "i",
      "o", "n", " ", "f", "r", "o", "m", " ", "t", "h", "e", " ", "k", "n",
      "o", "w", "l", "e", "d", "g", "e", " ", "b", "a", "s", "e", " ", "t",
      "o", " ", "i", "n", "f", "o", "r", "m", " ", "y", "o", "u", "r", " ",
      "a", "n", "s", "w", "e", "r", " ", "w", "h", "e", "n", " ", "r", "e",
      "l", "e", "v", "a", "n", "t", ",", " ", "b", "u", "t", " ", "a", "l",
      "s", "o", " ", "r", "e", "l", "y", " ", "o", "n", " ", "y", "o", "u",
      "r", " ", "g", "e", "n", "e", "r", "a", "l", " ", "k", "n", "o", "w",
      "l", "e", "d", "g", "e", ".", " ", "T", "h", "e", " ", "u", "s", "e",
      "r", " ", "h", "a", "s", " ", "u", "p", "l", "o", "a", "d", "e", "d",
      " ", "d", "o", "c", "u", "m", "e", "n", "t", "s", ",", " ", "a", "n",
      "d", " ", "t", "h", "e", " ", "i", "n", "f", "o", "r", "m", "a", "t",
      "i", "o", "n", " ", "b", "e", "l", "o", "w", " ", "c", "o", "m", "e",
      "s", " ", "f", "r", "o", "m", " ", "t", "h", "o", "s", "e", " ", "d",
      "o", "c", "u", "m", "e", "n", "t", "s", ".", " ", "T", "h", "e", " ",
      "u", "s", "e", "r", " ", "i", "s", " ", "a", "s", "k", "i", "n", "g",
      " ", "a", "b", "o", "u", "t", " ", "t", "h", "e", " ", "c", "o", "n",
      "t", "e", "n", "t", " ", "o", "f", " ", "t", "h", "e", "s", "e", " ",
      "d", "o", "c", "u", "m", "e", "n", "t", "s", ".", "\n", "\n", "K", "n",
      "o", "w", "l", "e", "d", "g", "e", " ", "B", "a", "s", "e", " ", "I",
      "n", "f", "o", "r", "m", "a", "t", "i", "o", "n", ":", "\n">>

\* line 236: the system prompt after the knowledge-base context
StrPromptTail ==
    <<"\n", "\n", "M", "a", "i", "n", "t", "a", "i", "n", " ", "c", "o", "n",
      "v", "e", "r", "s", "a", "t", "i", "o", "n", " ", "c", "o", "n", "t",
      "e", "x", "t", " ", "a", "n", "d", " ", "p", "r", "o", "v", "i", "d",
      "e", " ", "r", "e", "l", "e", "v", "a", "n", "t", ",", " ", "c", "o",
      "n", "c", "i", "s", "e", " ", "a", "n", "s", "w", "e", "r", "s", ".">>

StrDocumentOpen ==
    <<"[", "D", "o", "c", "u", "m", "e", "n", "t", ":", " ">>

StrUnknown ==
    <<"U", "n", "k", "n", "o", "w", "n">>

StrDocumentClose ==
    <<"]", "\n">>

StrSeparator ==
    <<"\n", "\n", "-", "-", "-", "\n", "\n">>

StrNoExactMatches ==
    <<"[", "N", "o", " ", "e", "x", "a", "c", "t", " ", "m", "a", "t", "c",
      "h", "e", "s", " ", "f", "o", "u", "n", "d", ",", " ", "u", "s", "i",
      "n", "g", " ", "a", "v", "a", "i", "l", "a", "b", "l", "e", " ", "d",
      "o", "c", "u", "m", "e", "n", "t", "]", "\n">>

StrAnswer ==
    <<"a", "n", "s", "w", "e", "r", " ">>

StrBeBrief ==
    <<"B", "e", " ", "b", "r", "i", "e", "f", ".">>

StrDog ==
    <<"d", "o", "g">>

\* a question that is the empty string (or left out): !question holds
EmptyQuestion == StringQuery(<<>>)

\* a test that lets every question through
isFalsy_never(question) == FALSE

\* line 179: !question. NotAString stands for a value that is no string
\* and not falsy (a number other than 0, an array, an object)
isFalsy(question) == question.isString /\ question.chars = <<>>

\* the text the completion service returns to the n-th request
kbAnswer(n) == StringQuery(StrAnswer \o numberToString(n))

\* a system turn a client puts into the history it sends
ClientSystemMessage == [role |-> "system", content |-> StringQuery(StrBeBrief)]

\* req.body.history: left out; an array; or a value that is neither falsy
\* nor an array (a string, an object)
kbNoHistory == [given |-> FALSE, array |-> TRUE, turns |-> <<>>]

HistoryArray(turns) == [given |-> TRUE, array |-> TRUE, turns |-> turns]

NotAnArray == [given |-> TRUE, array |-> FALSE, turns |-> <<>>]

\* the history App.js sends after eleven exchanges: every turn of the
\* conversation so far and the new question (App.js lines 78-79)
ClientHistory(question) ==
    [i \in 1..(WindowCap + 3) |->
        IF i = WindowCap + 3 THEN UserMessage(question)
        ELSE IF i % 2 = 1 THEN UserMessage(StringQuery(StrDog))
             ELSE AssistantMessage(kbAnswer(0))]

KbQuestion == StringQuery(<<"c", "a", "t">>)

Body(question, conversationId, history) ==
    [question |-> question, conversationId |-> conversationId, history |-> history]

\* the bodies of the /api/answer requests: a question alone; with a
\* conversationId; with a history that is empty, that holds a system turn,
\* or that is as long as the client's; a question that is no string; a
\* history that is no array; no question
KbBodies ==
    { Body(KbQuestion, NoConversationId, kbNoHistory),
      Body(KbQuestion, "a", kbNoHistory),
      Body(KbQuestion, "b", kbNoHistory),
      Body(KbQuestion, "a", HistoryArray(<<>>)),
      Body(KbQuestion, "a", HistoryArray(<<ClientSystemMessage, UserMessage(KbQuestion)>>)),
      Body(KbQuestion, "b", HistoryArray(ClientHistory(KbQuestion))),
      Body(NotAString, "a", kbNoHistory),
      Body(KbQuestion, "a", NotAnArray),
      Body(EmptyQuestion, "a", kbNoHistory),
      Body(EmptyQuestion, NoConversationId, HistoryArray(<<>>)) }

\* line 207: doc.metadata?.filename || 'Unknown'
filenameOrUnknown(doc) ==
    IF doc.metadata.filename # NoFilename THEN doc.metadata.filename ELSE StrUnknown

\* lines 206-208: the chunks mapped to text and joined
RECURSIVE joinDocuments(_)
joinDocuments(docs) ==
    IF docs = <<>> THEN <<>>
    ELSE StrDocumentOpen \o filenameOrUnknown(Head(docs)) \o StrDocumentClose
             \o Head(docs).pageContent
             \o (IF Len(docs) > 1 THEN StrSeparator \o joinDocuments(Tail(docs)) ELSE <<>>)

\* the catch of line 225 leaves the three variables as they were declared
retrievalCaught ==
    [path |-> "caught", documentCount |-> 0, relevantDocs |-> <<>>,
     usedKnowledgeBase |-> FALSE, relevantDocsFound |-> 0,
     contextFromKnowledgeBase |-> <<>>]

\* lines 193-227: the search and what the handler makes of its result;
\* documentCount is the count line 198 logs. searchSimilarDocuments catches
\* what its scoring throws, so nothing reaches the catch of line 225
retrieval(docs, question) ==
    LET found == searchSimilarDocuments(docs, question, 3)
        relevantDocs == found.result
    IN  IF Len(relevantDocs) > 0
        THEN [path |-> found.path, documentCount |-> getDocumentCount(docs),
              relevantDocs |-> relevantDocs,
              usedKnowledgeBase |-> TRUE, relevantDocsFound |-> Len(relevantDocs),
              contextFromKnowledgeBase |-> joinDocuments(relevantDocs)]
        ELSE IF getDocumentCount(docs) > 0
             THEN [path |-> found.path, documentCount |-> getDocumentCount(docs),
                   relevantDocs |-> <<docs[1]>>,
                   usedKnowledgeBase |-> TRUE, relevantDocsFound |-> 1,
                   contextFromKnowledgeBase |-> StrNoExactMatches \o docs[1].pageContent]
             ELSE [path |-> found.path, documentCount |-> getDocumentCount(docs),
                   relevantDocs |-> <<>>,
                   usedKnowledgeBase |-> FALSE, relevantDocsFound |-> 0,
                   contextFromKnowledgeBase |-> <<>>]

\* lines 233-243: the system turn of the assembler
kbSystemMessage(contextFromKnowledgeBase) ==
    [role |-> "system",
     content |-> StringQuery(IF contextFromKnowledgeBase # <<>>
                             THEN StrPromptHead \o contextFromKnowledgeBase \o StrPromptTail
                             ELSE StrGenericPrompt)]

\* the history filter of line 248 left out
kbHistoryTurns_unfiltered(messageHistory) == messageHistory

\* line 248: messageHistory.filter(msg => msg.role !== 'system')
kbHistoryTurns(messageHistory) == withoutSystem(messageHistory)

\* lines 230-254: the message list sent to the completion service
kbMessages(conversationMessages, body, contextFromKnowledgeBase) ==
    LET messageHistory ==
            IF body.history.given THEN body.history.turns ELSE conversationMessages
        messages ==
            <<kbSystemMessage(contextFromKnowledgeBase)>> \o kbHistoryTurns(messageHistory)
    IN  IF ~body.history.given /\ body.conversationId # NoConversationId
        THEN Append(messages, UserMessage(body.question))
        ELSE messages

\* lines 184-187: the store after the handler has read the window
kbReadWindow(m, conversationId) ==
    IF conversationId # NoConversationId THEN getConversation(m, conversationId) ELSE m

\* the window store after a failed completion call, had the catch of
\* line 286 stored the question
kbAfterFailure_storesQuestion(m, request) ==
    IF request.body.conversationId # NoConversationId
    THEN addMessageToConversation(m, request.body.conversationId, UserMessage(request.body.question))
    ELSE m

\* lines 286-289: the catch stores nothing
kbAfterFailure(m, request) == m

\* lines 266-278: the exchange is appended to the window
kbStoreExchange_answerFirst(m, request, answer) ==
    IF request.body.conversationId # NoConversationId
    THEN addMessageToConversation(
             addMessageToConversation(m, request.body.conversationId,
                                      AssistantMessage(answer)),
             request.body.conversationId, UserMessage(request.body.question))
    ELSE m

kbStoreExchange_questionOnly(m, request, answer) ==
    IF request.body.conversationId # NoConversationId
    THEN addMessageToConversation(m, request.body.conversationId,
                                  UserMessage(request.body.question))
    ELSE m

\* the window as the request read it, with the exchange behind it
kbStoreExchange_snapshot(m, request, answer) ==
    IF request.body.conversationId # NoConversationId
    THEN updateConversation(m, request.body.conversationId,
             SubSeq(request.messages, 2, Len(request.messages))
                 \o <<AssistantMessage(answer)>>)
    ELSE m

\* lines 265-278: the question and the answer are appended to the window
kbStoreExchange(m, request, answer) ==
    IF request.body.conversationId # NoConversationId
    THEN addMessageToConversation(
             addMessageToConversation(m, request.body.conversationId,
                                      UserMessage(request.body.question)),
             request.body.conversationId, AssistantMessage(answer))
    ELSE m

kbIdleRequest ==
    [pc |-> "idle", n |-> 0, body |-> [question |-> EmptyQuestion,
                                      conversationId |-> NoConversationId,
                                      history |-> kbNoHistory],
     retrieval |-> retrievalCaught, messages |-> <<>>, calls |-> 0]

NoResponse ==
    [n |-> 0, status |-> 0, question |-> EmptyQuestion,
     conversationId |-> NoConversationId, answer |-> EmptyQuestion,
     usedKnowledgeBase |-> FALSE, relevantDocsFound |-> 0, path |-> "none",
     searched |-> FALSE, calls |-> 0]

InitAnswer ==
    /\ kbRequests = [s \in Slots |-> kbIdleRequest]
    /\ asked = 0
    /\ response = NoResponse

\* lines 177-181: a request without a question is answered 400 at once
KbAnswerReject(body) ==
    /\ isFalsy(body.question)
    /\ asked' = asked + 1
    /\ response' = [NoResponse EXCEPT !.n = asked + 1, !.status = 400,
                                      !.question = body.question,
                                      !.conversationId = body.conversationId]
    /\ UNCHANGED kbRequests
    /\ UNCHANGED serviceVars
    /\ UNCHANGED basicVars
    /\ UNCHANGED processorVars
    /\ UNCHANGED chunkerVars
    /\ UNCHANGED kbVars

\* lines 177-261: the handler up to the await of the completion call; the
\* request takes the first slot that is free
KbAnswerStart(s, body) ==
    /\ kbRequests[s].pc = "idle"
    /\ \A t \in Slots : t < s => kbRequests[t].pc # "idle"
    /\ ~isFalsy(body.question)
    /\ body.history.array
    /\ LET found == retrieval(documents, body.question)
       IN  kbRequests' = [kbRequests EXCEPT ![s] =
               [pc |-> "awaiting", n |-> asked + 1, body |-> body, retrieval |-> found,
                messages |-> kbMessages(
                    getConversationResult(
                        kbReadWindow(conversations, body.conversationId),
                        body.conversationId),
                    body, found.contextFromKnowledgeBase),
                calls |-> 1]]
    /\ conversations' = kbReadWindow(conversations, body.conversationId)
    /\ asked' = asked + 1
    /\ UNCHANGED response
    /\ UNCHANGED <<appended, lastOp, ret>>
    /\ UNCHANGED basicVars
    /\ UNCHANGED processorVars
    /\ UNCHANGED chunkerVars
    /\ UNCHANGED kbVars

\* lines 177-248 and 286-289: a history that is no array has no filter
\* method; the TypeError is answered 500 before any completion call
KbAnswerThrows(body) ==
    /\ ~isFalsy(body.question)
    /\ ~body.history.array
    /\ LET found == retrieval(documents, body.question)
       IN  response' = [NoResponse EXCEPT !.n = asked + 1, !.status = 500,
                                          !.question = body.question,
                                          !.conversationId = body.conversationId,
                                          !.path = found.path, !.searched = TRUE]
    /\ conversations' = kbReadWindow(conversations, body.conversationId)
    /\ asked' = asked + 1
    /\ UNCHANGED kbRequests
    /\ UNCHANGED <<appended, lastOp, ret>>
    /\ UNCHANGED basicVars
    /\ UNCHANGED processorVars
    /\ UNCHANGED chunkerVars
    /\ UNCHANGED kbVars

\* lines 263-285: the completion call has returned
KbAnswerComplete(s) ==
    /\ kbRequests[s].pc = "awaiting"
    /\ conversations' = kbStoreExchange(conversations, kbRequests[s], kbAnswer(kbRequests[s].n))
    /\ response' =
         [n |-> kbRequests[s].n, status |-> 200,
          question |-> kbRequests[s].body.question,
          conversationId |-> kbRequests[s].body.conversationId,
          answer |-> kbAnswer(kbRequests[s].n),
          usedKnowledgeBase |-> kbRequests[s].retrieval.usedKnowledgeBase,
          relevantDocsFound |-> kbRequests[s].retrieval.relevantDocsFound,
          path |-> kbRequests[s].retrieval.path, searched |-> TRUE,
          calls |-> kbRequests[s].calls]
    /\ kbRequests' = [kbRequests EXCEPT ![s] = kbIdleRequest]
    /\ appended' = IF kbRequests[s].body.conversationId # NoConversationId
                   THEN [appended EXCEPT ![kbRequests[s].body.conversationId] = @ + 2]
                   ELSE appended
    /\ UNCHANGED asked
    /\ UNCHANGED <<lastOp, ret>>
    /\ UNCHANGED basicVars
    /\ UNCHANGED processorVars
    /\ UNCHANGED chunkerVars
    /\ UNCHANGED kbVars

\* lines 286-289: the completion call has thrown
KbAnswerFail(s) ==
    /\ kbRequests[s].pc = "awaiting"
    /\ conversations' = kbAfterFailure(conversations, kbRequests[s])
    /\ response' =
         [NoResponse EXCEPT !.n = kbRequests[s].n, !.status = 500,
                            !.question = kbRequests[s].body.question,
                            !.conversationId = kbRequests[s].body.conversationId,
                            !.path = kbRequests[s].retrieval.path, !.searched = TRUE,
                            !.calls = kbRequests[s].calls]
    /\ kbRequests' = [kbRequests EXCEPT ![s] = kbIdleRequest]
    /\ UNCHANGED asked
    /\ UNCHANGED <<appended, lastOp, ret>>
    /\ UNCHANGED basicVars
    /\ UNCHANGED processorVars
    /\ UNCHANGED chunkerVars
    /\ UNCHANGED kbVars

NextAnswer ==
    \/ uploads < MaxUploads /\ \E file \in SearchFiles : KbUpload(file, DefaultUser)
    \/ asked < MaxAsked /\ \E body \in KbBodies : KbAnswerReject(body)
    \/ asked < MaxAsked /\ \E s \in Slots : \E body \in KbBodies : KbAnswerStart(s, body)
    \/ asked < MaxAsked /\ \E body \in KbBodies : KbAnswerThrows(body)
    \/ \E s \in Slots : KbAnswerComplete(s)
    \/ \E s \in Slots : KbAnswerFail(s)

\* requests without conversation whose question matches the uploaded file,
\* matches nothing, has no keyword, or is no string
RetrieveBodies ==
    { Body(KbQuestion, NoConversationId, kbNoHistory),
      Body(StringQuery(<<"z", "z", "z">>), NoConversationId, kbNoHistory),
      Body(StringQuery(<<"a", "t">>), NoConversationId, kbNoHistory),
      Body(NotAString, NoConversationId, kbNoHistory) }

NextRetrieve ==
    \/ uploads < MaxDocs /\ KbUpload(CatFile, DefaultUser)
    \/ asked < MaxAsked /\ \E s \in Slots : \E body \in RetrieveBodies : KbAnswerStart(s, body)
    \/ \E s \in Slots : KbAnswerComplete(s)

\* the requests of one long conversation whose window the server keeps
WindowBody == Body(KbQuestion, "a", kbNoHistory)

NextWindow ==
    \/ asked < MaxExchanges /\ \E s \in Slots : KbAnswerStart(s, WindowBody)
    \/ \E s \in Slots : KbAnswerComplete(s)
    \/ asked <= MaxFailing /\ \E s \in Slots : KbAnswerFail(s)

Init == InitService /\ InitBasic /\ InitProcessor /\ InitChunker /\ InitKb /\ InitAnswer

SpecKb == Init /\ [][NextKb]_vars

SpecAnswer == Init /\ [][NextAnswer]_vars

SpecChunk == Init /\ [][NextChunk]_vars

SpecBasic == Init /\ [][NextBasic]_vars

SpecWindow == Init /\ [][NextWindow]_vars

SpecRetrieve == Init /\ [][NextRetrieve]_vars

SpecIngest == Init /\ [][NextIngest]_vars

SpecSearch == Init /\ [][NextSearch]_vars

Next ==
    \/ \E c \in CIds : AppendMessage(c)
    \/ \E c \in CIds : GetConversation(c)
    \/ \E c \in CIds : ClearConversation(c)

Spec == Init /\ [][Next]_vars

(***************************************************************************)
(* Properties of the conversation window store                             *)
(***************************************************************************)
\* the turns 1..n appended under id, cut to the last WindowCap of them
LastTurns(id, n) ==
    [i \in 1..Min(n, WindowCap) |-> Turn(id, n - Min(n, WindowCap) + i)]

\* C1: after any sequence of append, get and clear calls, every window held
\* in the conversation store has at most 20 turns.
C1_WindowAtMostCap ==
    \A c \in getAllConversationIds(conversations) : Len(conversations[c]) <= WindowCap

\* a window that is full after turns have been evicted from it
C1_Witness ==
    \E c \in getAllConversationIds(conversations) :
        /\ appended[c] > WindowCap
        /\ Len(conversations[c]) = WindowCap
        /\ lastOp.op = "append"
        /\ lastOp.cid = c

\* C2: after n appends to one id, starting from no window and with no clear
\* in between, the window is the last min(n, 20) appended turns in their
\* append order.
C2_WindowIsLastTurns ==
    \A c \in getAllConversationIds(conversations) :
        conversations[c] = LastTurns(c, appended[c])

\* 25 appends leave exactly turns 6..25, oldest first
C2_Witness ==
    /\ appended["a"] = 25
    /\ has(conversations, "a")
    /\ conversations["a"] = [i \in 1..20 |-> Turn("a", i + 5)]

\* every turn of a window was appended under the id of the window
C3_OwnTurnsOnly ==
    \A c \in getAllConversationIds(conversations) :
        \A i \in 1..Len(conversations[c]) : conversations[c][i].content[1] = c

\* a step leaves the window of every id but the one it was called for alone
C3_OtherWindowsUnchanged ==
    \A c \in CIds :
        lastOp'.cid # c =>
            /\ has(conversations', c) <=> has(conversations, c)
            /\ has(conversations, c) => conversations'[c] = conversations[c]

\* C3: under any interleaving of calls for distinct ids, a window holds only
\* turns appended under its own id, and a call for one id leaves the window
\* of every other id as it was (present or absent, and its turns).
C3_NoCrossConversationInterference ==
    []C3_OwnTurnsOnly /\ [][C3_OtherWindowsUnchanged]_vars

\* both ids hold turns, and the last call was made for one of them
C3_Witness ==
    /\ has(conversations, "a") /\ has(conversations, "b")
    /\ Len(conversations["a"]) > 1 /\ Len(conversations["b"]) > 1
    /\ lastOp.cid = "b"

\* C5 as stated: getConversation for an id without a window returns the
\* empty sequence and leaves the set of known ids as it was.
C5_GetAddsNoEntry ==
    (lastOp.op = "get" /\ lastOp.cid \notin lastOp.idsBefore) =>
        /\ ret = <<>>
        /\ getAllConversationIds(conversations) = lastOp.idsBefore

\* C5 amended: getConversation for an id without a window returns the empty
\* sequence and creates an empty window for that id; the known ids are the
\* earlier ones and that id.
C5_GetCreatesEmptyWindow ==
    (lastOp.op = "get" /\ lastOp.cid \notin lastOp.idsBefore) =>
        /\ ret = <<>>
        /\ getAllConversationIds(conversations) = lastOp.idsBefore \cup {lastOp.cid}
        /\ conversations[lastOp.cid] = <<>>

\* getConversation was called for an id that had no window, another id had one
C5_Witness ==
    /\ lastOp.op = "get"
    /\ lastOp.cid \notin lastOp.idsBefore
    /\ lastOp.idsBefore # {}

\* a clear step removes the window of its id and no other
C6_ClearStep ==
    lastOp'.op = "clear" =>
        /\ ~has(conversations', lastOp'.cid)
        /\ \A c \in CIds \ {lastOp'.cid} :
            /\ has(conversations', c) <=> has(conversations, c)
            /\ has(conversations, c) => conversations'[c] = conversations[c]

\* an append to an id without a window starts from the empty window
C6_AppendAfterClearStep ==
    (lastOp'.op = "append" /\ ~has(conversations, lastOp'.cid)) =>
        /\ has(conversations', lastOp'.cid)
        /\ conversations'[lastOp'.cid] = <<Turn(lastOp'.cid, 1)>>

\* C6: clearConversation(id) leaves no window for id and leaves the windows
\* of all other ids unchanged; an append to an id without a window yields a
\* window holding that one turn.
C6_ClearRemovesWindow ==
    [][C6_ClearStep]_vars /\ [][C6_AppendAfterClearStep]_vars

\* a window with turns was cleared while another id kept its turns
C6_Witness ==
    /\ lastOp.op = "clear"
    /\ lastOp.cid \in lastOp.idsBefore
    /\ ~has(conversations, lastOp.cid)
    /\ \E c \in getAllConversationIds(conversations) : Len(conversations[c]) > 0

(***************************************************************************)
(* Properties of the basic server's answer handler                         *)
(***************************************************************************)
\* the window holds a turn with this content
InWindow(content, window) == \E i \in 1..Len(window) : window[i].content = content

\* the window holds the question and the answer of request rq
ExchangeStored(rq, window) ==
    /\ InWindow(rq.question, window)
    /\ InWindow(Answer(rq.n), window)

\* two answered requests for one conversation id, sent without history, whose
\* completion calls overlapped: neither had the other's question in the
\* window it read
Overlapped(s1, s2) ==
    /\ s1 # s2
    /\ requests[s1].pc = "done" /\ requests[s2].pc = "done"
    /\ requests[s1].conversationId # NoConversationId
    /\ requests[s1].conversationId = requests[s2].conversationId
    /\ ~requests[s1].history.given /\ ~requests[s2].history.given
    /\ ~InWindow(requests[s2].question, requests[s1].messages)
    /\ ~InWindow(requests[s1].question, requests[s2].messages)

\* C4: two answer requests for the same conversation id whose completion
\* calls overlap are not serialized: each stores a window built from the one
\* it read before the call, so once both have succeeded the stored window
\* holds the exchange of one of them and lacks the exchange of the other.
C4_OverlappingRequestsLoseAnExchange ==
    \A s1, s2 \in Slots :
        Overlapped(s1, s2) =>
            LET window == serverConversations[requests[s1].conversationId]
            IN  \/ /\ ExchangeStored(requests[s1], window)
                   /\ ~InWindow(requests[s2].question, window)
                   /\ ~InWindow(Answer(requests[s2].n), window)
                \/ /\ ExchangeStored(requests[s2], window)
                   /\ ~InWindow(requests[s1].question, window)
                   /\ ~InWindow(Answer(requests[s1].n), window)

\* both requests succeeded, the window is far from full, and the exchange of
\* the first request is gone
C4_Witness ==
    /\ Overlapped(1, 2)
    /\ requests[1].n < requests[2].n
    /\ Len(serverConversations[requests[1].conversationId]) < WindowCap
    /\ ~InWindow(requests[1].question, serverConversations[requests[1].conversationId])
    /\ ExchangeStored(requests[2], serverConversations[requests[1].conversationId])

(***************************************************************************)
(* Properties of the keyword search                                        *)
(***************************************************************************)
\* the keywords of the query of the last search
searchKeywords == keywordsOf(search.query.chars)

\* the last search was made with a string that yields at least one keyword
SearchedWithKeywords ==
    /\ search.path # "none"
    /\ search.query.isString
    /\ Len(searchKeywords) > 0

\* some chunk of the store scores above zero for the last search
SomeChunkScores ==
    \E i \in 1..Len(documents) : scoreOf(documents[i], searchKeywords) > 0

\* no three characters in a row are free of whitespace: no token of the
\* string is longer than 2 characters
NoLongToken(chars) ==
    \A i \in 1..(Len(chars) - 2) :
        IsSpace(chars[i]) \/ IsSpace(chars[i + 1]) \/ IsSpace(chars[i + 2])

\* C7 as stated: for every store, query and k >= 0 the search returns at most
\* k chunks, on every path.
C7_AtMostK == search.path # "none" => Len(search.result) <= search.k

\* C8 as stated: for a query with at least one keyword, if any chunk of the
\* store scores above 0 then every returned chunk scores above 0.
C8_ZeroScoreOnlyWhenAllZero ==
    (SearchedWithKeywords /\ SomeChunkScores) =>
        \A j \in 1..Len(search.result) : scoreOf(search.result[j], searchKeywords) > 0

\* C9: when the query has keywords, the store holds n >= 1 chunks and none
\* of them scores above zero, the search returns exactly the first min(3, n)
\* chunks of the store in store order.
C9_FallbackIsFirstThree ==
    (SearchedWithKeywords /\ Len(documents) >= 1 /\ ~SomeChunkScores) =>
        search.result = SubSeq(documents, 1, Min(3, Len(documents)))

\* a store of more than three chunks, none matching the keyword of the query
C9_Witness ==
    /\ SearchedWithKeywords /\ ~SomeChunkScores
    /\ Len(documents) > 3
    /\ Len(search.result) = 3
    /\ search.path = "fallback"

\* C10: a query string in which no whitespace-separated token is longer than
\* 2 characters makes the search skip scoring and return the first min(k, n)
\* chunks of a non-empty store in store order.
C10_NoKeywordIsFirstK ==
    (/\ search.path # "none"
     /\ search.query.isString
     /\ NoLongToken(search.query.chars)
     /\ Len(documents) >= 1) =>
        /\ search.path = "nokeywords"
        /\ search.result = SubSeq(documents, 1, Min(search.k, Len(documents)))

\* a query of short words, a store larger than k whose first chunk does not
\* hold the words while a later one does
C10_Witness ==
    /\ search.path = "nokeywords"
    /\ search.query.chars # <<>>
    /\ search.k = 2
    /\ Len(documents) > 2
    /\ Len(search.result) = 2
    /\ documents[1] # documents[3]

(***************************************************************************)
(* Chunking: what splitIntoChunks returns                                  *)
(***************************************************************************)
\* the text splitIntoChunks was called with
typedText == textOf(typed)

\* two newlines with nothing but whitespace between them are adjacent: every
\* paragraph separator of str is exactly one blank line
regularBreaks(str) ==
    \A i \in 1..Len(str) :
        str[i] = "\n" =>
            \A j \in (i + 1)..Len(str) :
                (str[j] = "\n" /\ \A m \in (i + 1)..(j - 1) : IsSpace(str[m])) => j = i + 1

\* str is not empty, does not begin with a paragraph separator, and each of
\* its paragraph separators is exactly one blank line
plainlySeparated(str) ==
    /\ str # <<>>
    /\ ~(Len(str) >= 2 /\ str[1] = "\n" /\ str[2] = "\n")
    /\ regularBreaks(str)

hasBreak(str) == \E i \in 1..Len(str) : paragraphBreakEnd(str, i) > 0

\* C11 as stated, on the texts that are not blank: a text no longer than
\* chunkSize comes back as exactly one chunk equal to the text, whatever
\* blank lines it holds
C11_ShortTextIsItsOwnChunk ==
    (split.done /\ Len(typedText) <= chunkSize /\ ~isBlank(typedText)) =>
        split.chunks = <<typedText>>

\* C11: a text no longer than chunkSize comes back as exactly one chunk, and
\* that chunk equals the text when the text is not empty, does not begin
\* with a paragraph separator and has only single blank lines as separators
C11_ShortTextIsOneChunk ==
    (split.done /\ Len(typedText) <= chunkSize) =>
        /\ Len(split.chunks) = 1
        /\ plainlySeparated(typedText) => split.chunks[1] = typedText

\* a text of exactly chunkSize characters with a blank line in it was split
C11_Witness ==
    /\ split.done
    /\ Len(typedText) = chunkSize
    /\ hasBreak(typedText)
    /\ split.chunks = <<typedText>>

\* C12: an empty or whitespace-only text comes back as the one sentinel
\* chunk "[Empty document]", and no text comes back as an empty sequence
C12_BlankTextIsSentinel ==
    /\ (split.done /\ isBlank(typedText)) => split.chunks = <<EmptyDocument>>
    /\ split.done => split.chunks # <<>>

\* C13: no chunk of a text that is not empty and not whitespace-only is the
\* empty string, also when a word is as long as chunkSize or longer
C13_NoEmptyChunk ==
    (split.done /\ ~isBlank(typedText)) =>
        \A i \in 1..Len(split.chunks) : split.chunks[i] # <<>>

(***************************************************************************)
(* The knowledge-base server: DELETE and the chunk store                   *)
(***************************************************************************)
\* the chunks in the store that came from the upload fileId
chunksOfFile(fileId) ==
    {i \in 1..Len(documents) : documents[i].metadata.fileId = fileId}

\* C14: once a DELETE request has succeeded, no chunk of the deleted
\* document is left in the chunk store
C14_DeleteRemovesChunks ==
    \A fileId \in deleted : chunksOfFile(fileId) = {}

(***************************************************************************)
(* The knowledge-base server: the message list of an answer request        *)
(***************************************************************************)
\* the requests whose message list has been submitted to the completion
\* service
Submitted == {s \in Slots : kbRequests[s].pc = "awaiting"}

\* C15: the message list submitted for an accepted request holds the
\* current question as a user turn; no accepted request submits a list
\* from which the question is missing
C15_QuestionSubmitted ==
    \A s \in Submitted :
        \E i \in 1..Len(kbRequests[s].messages) :
            /\ kbRequests[s].messages[i].role = "user"
            /\ kbRequests[s].messages[i].content = kbRequests[s].body.question

\* C16: every submitted list has exactly one system turn, the first, which
\* is the assembler's own; the turns after it are the non-system turns of
\* the supplied history in their order, or end with the question when the
\* stored window is used
C16_OneLeadingSystemTurn ==
    \A s \in Submitted :
        LET request == kbRequests[s]
            messages == request.messages
            rest == SubSeq(messages, 2, Len(messages))
        IN  /\ Len(messages) >= 1
            /\ messages[1] = kbSystemMessage(request.retrieval.contextFromKnowledgeBase)
            /\ \A i \in 2..Len(messages) : messages[i].role # "system"
            /\ request.body.history.given =>
                   rest = SelectSeq(request.body.history.turns,
                                    LAMBDA turn : turn.role # "system")
            /\ (~request.body.history.given /\ request.body.conversationId # NoConversationId) =>
                   messages[Len(messages)] = UserMessage(request.body.question)

\* a list was submitted for a history that held a system turn
C16_Witness ==
    \E s \in Submitted :
        /\ \E i \in 1..Len(kbRequests[s].body.history.turns) :
               kbRequests[s].body.history.turns[i].role = "system"
        /\ Len(kbRequests[s].messages) = Len(kbRequests[s].body.history.turns)

\* C17: no submitted list has more than 22 turns
C17_AtMost22Turns ==
    \A s \in Submitted : Len(kbRequests[s].messages) <= WindowCap + 2

\* C18 as stated: when the scoring inside the search has thrown, no chunk
\* is used: usedKnowledgeBase is false and relevantDocsFound is 0
C18_ScoringErrorUsesNoChunk ==
    \A s \in Submitted :
        kbRequests[s].retrieval.path = "error" =>
            /\ kbRequests[s].retrieval.relevantDocs = <<>>
            /\ ~kbRequests[s].retrieval.usedKnowledgeBase
            /\ kbRequests[s].retrieval.relevantDocsFound = 0

\* C18: when the scoring inside the search has thrown, the request goes on
\* to the completion call with the first min(2, n) chunks of the store in
\* its prompt, usedKnowledgeBase true and relevantDocsFound min(2, n)
C18_ScoringErrorUsesFirstTwo ==
    \A s \in Submitted :
        LET found == kbRequests[s].retrieval
        IN  found.path = "error" =>
                /\ found.documentCount >= 1
                /\ found.relevantDocsFound = Min(2, found.documentCount)
                /\ found.relevantDocs = SubSeq(documents, 1, found.relevantDocsFound)
                /\ found.usedKnowledgeBase
                /\ kbRequests[s].messages[1] =
                       kbSystemMessage(joinDocuments(found.relevantDocs))

\* a request whose search had thrown over a store of two chunks or more was
\* answered
C18_Witness ==
    /\ response.status = 200
    /\ response.path = "error"
    /\ response.usedKnowledgeBase
    /\ response.relevantDocsFound = 2

(***************************************************************************)
(* The knowledge-base server: failures and rejections                      *)
(***************************************************************************)
\* C19: when the completion call of a request fails, the request is
\* answered with a failure after that one call, and no window changes
C19_FailedCallStoresNothing ==
    [][\A s \in Slots :
          (/\ kbRequests[s].pc = "awaiting"
           /\ kbRequests'[s].pc = "idle"
           /\ response'.n = kbRequests[s].n
           /\ response'.status # 200) =>
              /\ response'.status = 500
              /\ response'.calls = 1
              /\ conversations' = conversations]_vars

\* the completion call of a request with a conversationId has failed, and
\* the window the request had read is still empty
C19_Witness ==
    /\ response.status = 500
    /\ response.calls = 1
    /\ response.conversationId \in CIds
    /\ has(conversations, response.conversationId)
    /\ conversations[response.conversationId] = <<>>

\* C20: a request whose question is empty or missing is never accepted; it
\* is answered 400 with no search made, no completion call made, and the
\* conversation store and the chunk store as they were
C20_EmptyQuestionRejected ==
    [][asked' = asked + 1 =>
          /\ \A s \in Slots :
                 kbRequests'[s].n = asked' => kbRequests'[s].body.question.chars # <<>>
                                              \/ ~kbRequests'[s].body.question.isString
          /\ (response'.n = asked' /\ response'.question = EmptyQuestion) =>
                 /\ response'.status = 400
                 /\ ~response'.searched
                 /\ response'.calls = 0
                 /\ conversations' = conversations
                 /\ documents' = documents
                 /\ kbRequests' = kbRequests]_vars

\* a request with a conversationId and no question was rejected, and the
\* conversation has no window
C20_Witness ==
    /\ response.status = 400
    /\ response.question = EmptyQuestion
    /\ response.conversationId \in CIds
    /\ ~has(conversations, response.conversationId)

(***************************************************************************)
(* Ingestion and removal, the repository, windows, ranking and retrieval   *)
(***************************************************************************)
\* C21: every processFile call, also one whose content extraction yields
\* nothing or that throws, returns at least one chunk and appends exactly the
\* chunks it returns to the store, whose earlier chunks stay as they were.
C21_ProcessFileAppendsWhatItReturns ==
    [][uploads' = uploads + 1 =>
          /\ Len(returned') >= 1
          /\ Len(documents') = Len(documents) + Len(returned')
          /\ SubSeq(documents', 1, Len(documents)) = documents
          /\ SubSeq(documents', Len(documents) + 1, Len(documents')) = returned']_vars

\* the store holds chunks from before, an error chunk, the chunk made of the
\* name, type and size of a file nothing was read from, and the last call
\* returned several chunks
C21_Witness ==
    /\ Len(returned) >= 2
    /\ Len(documents) > Len(returned)
    /\ \E i \in 1..Len(documents) : documents[i].metadata.error
    /\ \E i \in 1..Len(documents) :
          /\ documents[i].metadata.source = EmptyFile.originalname
          /\ documents[i].pageContent = contentOf(EmptyFile)
          /\ documents[i].pageContent # EmptyFile.content

\* the places of the chunks of one upload in the store
placesOfFile(fileId) ==
    {i \in 1..Len(documents) : documents[i].metadata.fileId = fileId}

\* C26: in every state of the chunk store, after any uploads and removals,
\* the chunks of one document carry the ordinals 1..n, without gap or repeat,
\* in increasing order of their places in the store (an error chunk is the
\* one chunk of its document).
C26_OrdinalsAreOneToN ==
    \A i \in 1..Len(documents) :
        LET doc == documents[i]
        IN  IF doc.metadata.fileId = NoFileId
            THEN doc.metadata.chunk = 1
            ELSE /\ doc.metadata.chunk =
                      1 + Cardinality({j \in placesOfFile(doc.metadata.fileId) : j < i})
                 /\ doc.metadata.chunkCount =
                      Cardinality(placesOfFile(doc.metadata.fileId))

\* a document of several chunks is in the store behind other chunks, after a
\* removal that has removed chunks
C26_Witness ==
    /\ removal.removed > 0
    /\ \E i \in 2..Len(documents) :
          /\ documents[i].metadata.chunk >= 2
          /\ documents[1].metadata.fileId # documents[i].metadata.fileId

\* C30: removeDocumentsByFileId(f) removes exactly the chunks whose fileId is
\* f, keeps every other chunk (those without fileId too) in order and returns
\* the number removed; called again with the same f it returns 0 and changes
\* nothing.
C30_RemovesExactlyTheFile ==
    [][(removal' # NoRemoval /\ removal' # removal) =>
          LET f == removal'.fileId
              kept == {i \in 1..Len(documents) : documents[i].metadata.fileId # f}
          IN  /\ Len(documents') = Cardinality(kept)
              /\ \A i \in kept :
                    documents'[Cardinality({j \in kept : j <= i})] = documents[i]
              /\ removal'.removed = Len(documents) - Cardinality(kept)
              /\ removal'.earlier >= 0 =>
                    /\ removal'.removed = 0
                    /\ documents' = documents]_vars

\* the same fileId has been named twice over: the first call removed the
\* chunks of a document of several chunks, the second none, and the store
\* still holds a chunk without fileId and one of another upload
C30_Witness ==
    /\ removal.earlier >= 2
    /\ removal.removed = 0
    /\ \E i \in 1..Len(documents) : documents[i].metadata.fileId = NoFileId
    /\ \E i \in 1..Len(documents) : documents[i].metadata.fileId # NoFileId
windowOf(m, id) == getConversationResult(m, id)

\* C23: an answer request that succeeds has searched, assembled its messages
\* and made exactly one completion call before the window of its
\* conversationId changes; the window then gets the user turn with the
\* question and the assistant turn with the answer behind it, which are its
\* last two turns when the response is sent. Receiving a request changes the
\* turns of no window, and a request without conversationId changes no window.
C23_WindowUpdatedAfterTheCall ==
    [][/\ asked' # asked =>
            \A id \in CIds : windowOf(conversations', id) = windowOf(conversations, id)
       /\ (response' # response /\ response'.status = 200) =>
            \E s \in Slots :
                LET request == kbRequests[s]
                    id == request.body.conversationId
                IN  /\ request.pc = "awaiting"
                    /\ request.n = response'.n
                    /\ request.calls = 1
                    /\ response'.calls = 1
                    /\ response'.searched
                    /\ request.messages # <<>>
                    /\ IF id = NoConversationId
                       THEN conversations' = conversations
                       ELSE LET w == windowOf(conversations', id)
                            IN  /\ Len(w) >= 2
                                /\ w[Len(w) - 1] = UserMessage(request.body.question)
                                /\ w[Len(w)] = AssistantMessage(response'.answer)
                                /\ w = sliceLast(windowOf(conversations, id)
                                                     \o <<UserMessage(request.body.question),
                                                          AssistantMessage(response'.answer)>>,
                                                 WindowCap)
                                /\ \A other \in CIds \ {id} :
                                      windowOf(conversations', other)
                                          = windowOf(conversations, other)]_vars

\* the response of a request with conversationId has been sent, and its
\* exchange stands behind an earlier one in the window
C23_Witness ==
    /\ response.status = 200
    /\ response.conversationId \in CIds
    /\ response.calls = 1
    /\ LET w == windowOf(conversations, response.conversationId)
       IN  /\ Len(w) = 4
           /\ w[3] = UserMessage(response.question)
           /\ w[4] = AssistantMessage(response.answer)

\* C28: under every interleaving of answer requests of one conversation id, a
\* window changes only when a request succeeds, and then by getting that
\* request's user turn and, right behind it, its assistant turn at its end:
\* no exchange is lost but to the cap of 20 turns.
C28_NoLostExchange ==
    [][\A id \in CIds :
          LET w == windowOf(conversations, id)
              w2 == windowOf(conversations', id)
          IN  /\ Len(w2) = Min(appended'[id], WindowCap)
              /\ \/ w2 = w
                 \/ \E s \in Slots :
                       /\ kbRequests[s].pc = "awaiting"
                       /\ kbRequests[s].body.conversationId = id
                       /\ response'.status = 200
                       /\ response'.n = kbRequests[s].n
                       /\ w2 = sliceLast(w \o <<UserMessage(kbRequests[s].body.question),
                                                AssistantMessage(kbAnswer(kbRequests[s].n))>>,
                                         WindowCap)]_vars

\* the answers of the requests of the long conversation
answerAt(w, i) == CHOOSE n \in 0..(MaxExchanges + 1) :
                      \/ w[i] = AssistantMessage(kbAnswer(n))
                      \/ n = 0 /\ \A k \in 1..(MaxExchanges + 1) :
                                     w[i] # AssistantMessage(kbAnswer(k))

\* turns have been evicted from a full window that holds the answer of a
\* request in front of the answer of a request received before it: the two
\* requests overlapped
C28_Witness ==
    \E id \in CIds :
        LET w == windowOf(conversations, id)
        IN  /\ appended[id] > WindowCap
            /\ Len(w) = WindowCap
            /\ \E i \in 1..(WindowCap \div 2 - 1) :
                  /\ answerAt(w, 2 * i) > answerAt(w, 2 * i + 2)
                  /\ answerAt(w, 2 * i + 2) > 0

\* C29: the two appends of a request are made without another request in
\* between, so in every state every stored window has an even number of turns,
\* none of them a system turn, user and assistant taking turns from a user
\* turn on, also after turns have been evicted.
C29_WindowsAlternate ==
    \A id \in getAllConversationIds(conversations) :
        LET w == conversations[id]
        IN  /\ Len(w) % 2 = 0
            /\ \A i \in 1..Len(w) :
                  w[i].role = IF i % 2 = 1 THEN "user" ELSE "assistant"

\* a full window after evictions, and a request that has failed
C29_Witness ==
    \E id \in getAllConversationIds(conversations) :
        /\ appended[id] > WindowCap
        /\ Len(conversations[id]) = WindowCap
        /\ asked > appended[id] \div 2
        /\ \A s \in Slots : kbRequests[s].pc = "idle"
\* the chunks of the store with their scores for the last search
scoredDocuments ==
    [i \in 1..Len(documents) |->
        [doc |-> documents[i], score |-> scoreOf(documents[i], searchKeywords)]]

\* the specified order of steps: drop the zero scores, sort, take k
specifiedResults(k) ==
    LET positive == SelectSeq(scoredDocuments, LAMBDA item : item.score > 0)
        first == sliceFirst(sortByScore(positive), k)
    IN  [i \in 1..Len(first) |-> first[i].doc]

\* C24 as stated: when a chunk scores above zero, the search returns the
\* first k of the chunks scoring above zero, sorted by score, highest first
\* and equals in store order; sorting all chunks, taking k and dropping the
\* zero scores gives that same list, for every store, query and k.
C24_FirstKOfPositive ==
    (SearchedWithKeywords /\ SomeChunkScores) =>
        /\ scoredResults(documents, searchKeywords, search.k) = specifiedResults(search.k)
        /\ search.result = specifiedResults(search.k)

\* whole-word matches of the keywords of the last search in a chunk
wholeWordMatches(doc) ==
    LET text == toLowerCase(doc.pageContent)
        counts == [i \in 1..Len(searchKeywords) |-> exactMatches(text, searchKeywords[i])]
        sum[i \in 0..Len(counts)] == IF i = 0 THEN 0 ELSE sum[i - 1] + counts[i]
    IN  sum[Len(counts)]

\* C25 as stated: every whole-word match of a keyword is a substring match as
\* well, so a chunk with e whole-word matches scores at least 12 * e, and a
\* chunk with a whole-word match is returned ahead of every chunk that
\* scores zero.
C25_WholeWordMatchesLead ==
    SearchedWithKeywords =>
        /\ \A i \in 1..Len(documents) :
              /\ \A j \in 1..Len(searchKeywords) :
                    partialMatches(toLowerCase(documents[i].pageContent), searchKeywords[j])
                        >= exactMatches(toLowerCase(documents[i].pageContent),
                                        searchKeywords[j])
              /\ scoreOf(documents[i], searchKeywords) >= 12 * wholeWordMatches(documents[i])
        /\ \A p \in 1..Len(search.result) : \A q \in (p + 1)..Len(search.result) :
              ~(/\ scoreOf(search.result[p], searchKeywords) = 0
                /\ wholeWordMatches(search.result[q]) > 0)
\* C27: for every accepted answer request, usedKnowledgeBase is true exactly
\* when relevantDocsFound is above 0, relevantDocsFound is at most 3, and
\* usedKnowledgeBase is true exactly when the chunk store held a chunk when
\* the request searched it, whether or not a chunk matches the question and
\* whatever is uploaded while the request is handled.
C27_UsedIffStoreNonEmpty ==
    /\ \A s \in Submitted :
          LET found == kbRequests[s].retrieval
          IN  /\ found.usedKnowledgeBase <=> found.relevantDocsFound > 0
              /\ found.relevantDocsFound <= 3
              /\ found.usedKnowledgeBase <=> found.documentCount > 0
              /\ found.relevantDocsFound = Len(found.relevantDocs)
    /\ response.status = 200 =>
          /\ response.usedKnowledgeBase <=> response.relevantDocsFound > 0
          /\ response.relevantDocsFound <= 3

\* two requests are being handled while files are uploaded: one searched the
\* store when it was empty, the other when it held more than three chunks,
\* none of which matches its question
C27_Witness ==
    /\ \E s \in Submitted :
          /\ kbRequests[s].retrieval.documentCount = 0
          /\ kbRequests[s].retrieval.documentCount < Len(documents)
          /\ ~kbRequests[s].retrieval.usedKnowledgeBase
    /\ \E s \in Submitted :
          /\ kbRequests[s].retrieval.documentCount > 3
          /\ kbRequests[s].retrieval.path = "fallback"
          /\ kbRequests[s].retrieval.relevantDocsFound = 3
====
